---- MODULE Spec2Model ----
(***************************************************************************)
(* A model of genv1.0.py: extraction of per-channel (pitch, duration)      *)
(* sequences from MIDI messages, construction of first-order transition    *)
(* tables, weighted note choice, the grid-stepped generation loop and the  *)
(* assembly of the output tracks.                                          *)
(*                                                                         *)
(* Python dicts are modelled as sequences of <<key, value>> pairs in       *)
(* insertion order (the order Python iterates them in).                    *)
(***************************************************************************)
EXTENDS Integers, Sequences, FiniteSets, TLC

VARIABLES
    pc,              \* position in main / extract_sequences / generate_events
    cfg,             \* the module-level configuration (lines 11-14)
    mid_files,       \* the list load_midis returned
    files_done,      \* extract_sequences: files opened so far
    msgs_done,       \* extract_sequences: messages scanned so far
    abs_t,           \* extract_sequences: absolute time of the last scanned event
    active,          \* extract_sequences: open notes, {<<channel, note, start>>}
    seqs,            \* dict channel -> list of <<note, dur>>
    programs,        \* dict channel -> program
    ticks_per_beat,
    tempo,
    models,          \* dict channel -> dict cur -> Counter (dict nxt -> count)
    channels,        \* generate_events: the selected channels
    steps,           \* generate_events: number of grid steps
    step,            \* generate_events: loop index
    events_by_ch,    \* dict channel -> list of [tick, type, note]
    active_until,    \* dict channel -> tick
    last_note,       \* dict channel -> note
    out_tracks,      \* write_midi: the tracks of the saved file
    rng,             \* the random source: [seeded, tape, pos]
    run,             \* how many times the pipeline has been started
    first_out,       \* the output of the first run, kept for comparison
    scanned,         \* extract_sequences: the message of the last iteration and
                     \* the note starts seen for the notes still open
    chosen           \* a call of choose_note: its arguments and its result

vars == <<pc, cfg, mid_files, files_done, msgs_done, abs_t, active, seqs,
          programs, ticks_per_beat, tempo, models, channels, steps, step,
          events_by_ch, active_until, last_note, out_tracks, rng, run,
          first_out, scanned, chosen>>

extractVars == <<files_done, msgs_done, abs_t, active, seqs, programs,
                 ticks_per_beat, tempo>>
genVars == <<channels, steps, step, events_by_ch, active_until, last_note>>

-----------------------------------------------------------------------------
(* Bounds of the model *)

MaxFiles == 2        \* files per corpus in the message-level extraction
MaxMsgs == 4         \* messages scanned per corpus in the message-level extraction
MaxNotes == 3        \* notes per corpus file in the pipeline runs
MaxPoly == 2         \* largest MAX_GLOBAL_POLY
MaxGrid == 2         \* largest GRID
MaxSeqLen == 4       \* longest sequence given to build_markov_models alone

ScanKeys == {<<0, 60>>, <<0, 62>>, <<1, 60>>}  \* <<channel, pitch>> of scanned note messages
ChanValues == {1, 2}  \* values of MAX_CHANNELS
TpbValues == {0, 1, 4}
DeltaValues == {0, 1}  \* delta times between two consecutive events
NoteKinds == {<<0, 60>>, <<0, 62>>, <<1, 64>>}  \* <<channel, pitch>> of corpus notes
NoNote == -1         \* Python's None where a note is expected

-----------------------------------------------------------------------------
(* Python dict, insertion ordered *)

DictHas(d, k) == \E i \in 1..Len(d) : d[i][1] = k

DictIdx(d, k) == CHOOSE i \in 1..Len(d) : d[i][1] = k

DictGet(d, k, default) == IF DictHas(d, k) THEN d[DictIdx(d, k)][2] ELSE default

DictSet(d, k, v) ==
    IF DictHas(d, k) THEN [d EXCEPT ![DictIdx(d, k)] = <<k, v>>]
    ELSE Append(d, <<k, v>>)

DictKeys(d) == [i \in 1..Len(d) |-> d[i][1]]

DictKeySet(d) == {d[i][1] : i \in 1..Len(d)}

Range(s) == {s[i] : i \in 1..Len(s)}

-----------------------------------------------------------------------------
(* extract_sequences *)

Msg(type, channel, note, velocity, program, tmp) ==
    [type |-> type, channel |-> channel, note |-> note, velocity |-> velocity,
     program |-> program, tempo |-> tmp]

NoteMsgs ==
    {Msg("note_on", k[1], k[2], v, 0, 0) : k \in ScanKeys, v \in {0, 96}}
    \cup {Msg("note_off", k[1], k[2], 0, 0, 0) : k \in ScanKeys}

MetaMsgs == {Msg("program_change", 0, 0, 0, 1, 0), Msg("set_tempo", 0, 0, 0, 0, 400000)}

Msgs == NoteMsgs \cup MetaMsgs

\* line 54
IsNoteStart(msg) == msg.type = "note_on" /\ msg.velocity > 0

\* line 56
IsNoteEnd(msg) == msg.type = "note_off" \/ (msg.type = "note_on" /\ msg.velocity = 0)

\* line 39: ticks_per_beat = mid.ticks_per_beat or ticks_per_beat
FileTpb(file_tpb, old) == IF file_tpb # 0 THEN file_tpb ELSE old

\* lines 62-63: the duration recorded for a measured end - start
RecordedDur(dur, tpb) == IF dur <= 0 THEN tpb \div 4 ELSE dur

IsOpen(act, ch, n) == \E a \in act : a[1] = ch /\ a[2] = n

OpenStart(act, ch, n) == (CHOOSE a \in act : a[1] = ch /\ a[2] = n)[3]

\* a variant of OpenNote that keeps the start of a note that is already open
OpenNoteKeepFirst(act, ch, n, t) == IF IsOpen(act, ch, n) THEN act ELSE act \cup {<<ch, n, t>>}

\* line 55: active[msg.channel][msg.note] = abs_t
OpenNote(act, ch, n, t) == {a \in act : ~(a[1] = ch /\ a[2] = n)} \cup {<<ch, n, t>>}

\* a variant of PopNote that leaves the note open
PopNoteKeep(act, ch, n) == act

\* line 60: active[ch].pop(n)
PopNote(act, ch, n) == {a \in act : ~(a[1] = ch /\ a[2] = n)}

\* lines 50-64: the body of the scan loop for one (abs_t, msg), on the
\* extraction state st = [active, seqs, programs, tempo]
ScanMsg(st, t, msg, tpb) ==
    LET st1 == IF msg.type = "set_tempo" THEN [st EXCEPT !.tempo = msg.tempo] ELSE st
        st2 == IF msg.type = "program_change"
               THEN [st1 EXCEPT !.programs = DictSet(@, msg.channel, msg.program)]
               ELSE st1
        ch == msg.channel
        n == msg.note
    IN  IF IsNoteStart(msg)
        THEN [st2 EXCEPT !.active = OpenNote(@, ch, n, t)]
        ELSE IF IsNoteEnd(msg)
        THEN IF IsOpen(st2.active, ch, n)
             THEN LET start == OpenStart(st2.active, ch, n)
                      dur == RecordedDur(t - start, tpb)
                  IN  [st2 EXCEPT !.active = PopNote(@, ch, n),
                                  !.seqs = DictSet(@, ch, Append(DictGet(@, ch, <<>>), <<n, dur>>))]
             ELSE st2
        ELSE st2

\* The record of the scan loop's last iteration: its message, and for the
\* notes started and not yet ended in this file the time of the first
\* (first_on) and of the latest (last_on) note start, as sets of
\* <<channel, note, time>>; open_before and first_before are the latest and
\* the first start of the message's own (channel, note) before the message.
NotOpen == -1

NoMsg == Msg("none", 0, 0, 0, 0, 0)

NoScan ==
    [msg |-> NoMsg, open_before |-> NotOpen, first_before |-> NotOpen,
     first_on |-> {}, last_on |-> {}]

StartIn(starts, ch, n) ==
    IF \E a \in starts : a[1] = ch /\ a[2] = n
    THEN (CHOOSE a \in starts : a[1] = ch /\ a[2] = n)[3]
    ELSE NotOpen

ScanRecord(old, t, msg) ==
    LET ch == msg.channel
        n == msg.note
        others(starts) == {a \in starts : ~(a[1] = ch /\ a[2] = n)}
        note_msg == IsNoteStart(msg) \/ IsNoteEnd(msg)
    IN  [msg |-> msg,
         open_before |-> IF note_msg THEN StartIn(old.last_on, ch, n) ELSE NotOpen,
         first_before |-> IF note_msg THEN StartIn(old.first_on, ch, n) ELSE NotOpen,
         first_on |-> IF IsNoteStart(msg)
                      THEN IF StartIn(old.first_on, ch, n) # NotOpen THEN old.first_on
                           ELSE old.first_on \cup {<<ch, n, t>>}
                      ELSE IF IsNoteEnd(msg) THEN others(old.first_on)
                      ELSE old.first_on,
         last_on |-> IF IsNoteStart(msg) THEN others(old.last_on) \cup {<<ch, n, t>>}
                     ELSE IF IsNoteEnd(msg) THEN others(old.last_on)
                     ELSE old.last_on]

\* a variant of StableSortBy whose order of equal keys differs from one run
\* to the next
RunOrderSortBy(s, keys) ==
    LET before(i) == IF run > 1 THEN (i + 1)..Len(s) ELSE 1..(i - 1)
        rank(i) == Cardinality({j \in 1..Len(s) : keys[j] < keys[i]})
                   + Cardinality({j \in before(i) : keys[j] = keys[i]}) + 1
    IN  [p \in 1..Len(s) |-> s[CHOOSE i \in 1..Len(s) : rank(i) = p]]

\* sorted(s, key=...), keys[i] the key of s[i]: Python's sort is stable
StableSortBy(s, keys) ==
    LET rank(i) == Cardinality({j \in 1..Len(s) : keys[j] < keys[i]})
                   + Cardinality({j \in 1..(i - 1) : keys[j] = keys[i]}) + 1
    IN  [p \in 1..Len(s) |-> s[CHOOSE i \in 1..Len(s) : rank(i) = p]]

\* lines 42-45: one track's messages with their absolute times
RECURSIVE TrackEvents(_, _, _)
TrackEvents(tr, i, t) ==
    IF i > Len(tr) THEN <<>>
    ELSE <<[abs_t |-> t + tr[i].time, msg |-> tr[i].msg]>>
         \o TrackEvents(tr, i + 1, t + tr[i].time)

\* lines 40-46: all tracks' events, sorted by absolute time
RECURSIVE FlattenTracks(_, _)
FlattenTracks(tracks, i) ==
    IF i > Len(tracks) THEN <<>>
    ELSE TrackEvents(tracks[i], 1, 0) \o FlattenTracks(tracks, i + 1)

\* line 46: key=lambda x: x[0]
EventTimes(events) == [i \in 1..Len(events) |-> events[i].abs_t]

SortedEvents(mid) ==
    LET events == FlattenTracks(mid.tracks, 1)
    IN  StableSortBy(events, EventTimes(events))

\* lines 49-64 over a whole sorted event list
RECURSIVE ScanEvents(_, _, _, _)
ScanEvents(st, events, i, tpb) ==
    IF i > Len(events) THEN st
    ELSE ScanEvents(ScanMsg(st, events[i].abs_t, events[i].msg, tpb), events, i + 1, tpb)

\* lines 38-64 over the files from index i on; st also carries ticks_per_beat
RECURSIVE ExtractFiles(_, _, _)
ExtractFiles(st, files, i) ==
    IF i > Len(files) THEN st
    ELSE LET tpb == FileTpb(files[i].ticks_per_beat, st.ticks_per_beat)
             st1 == [st EXCEPT !.ticks_per_beat = tpb, !.active = {}]
         IN  ExtractFiles(ScanEvents(st1, SortedEvents(files[i]), 1, tpb), files, i + 1)

DEFAULT_TPB == 480
DEFAULT_TEMPO == 500000

\* lines 34-37: the state extract_sequences starts from
ExtractStart ==
    [active |-> {}, seqs |-> <<>>, programs |-> <<>>,
     ticks_per_beat |-> DEFAULT_TPB, tempo |-> DEFAULT_TEMPO]

\* extract_sequences(mid_files)
ExtractSequences(files) == ExtractFiles(ExtractStart, files, 1)

-----------------------------------------------------------------------------
(* build_markov_models *)

\* a variant of CountTransition that sets the count instead of adding to it
CountTransitionSet(trans, cur, nxt) ==
    DictSet(trans, cur, DictSet(DictGet(trans, cur, <<>>), nxt, 1))

\* line 75: trans[cur][nxt] += 1
CountTransition(trans, cur, nxt) ==
    LET counter == DictGet(trans, cur, <<>>)
    IN  DictSet(trans, cur, DictSet(counter, nxt, DictGet(counter, nxt, 0) + 1))

\* lines 71-75: the table of one channel's sequence, from index i on
RECURSIVE BuildTrans(_, _, _)
BuildTrans(arr, i, trans) ==
    IF i > Len(arr) - 1 THEN trans
    ELSE BuildTrans(arr, i + 1, CountTransition(trans, arr[i][1], arr[i + 1][1]))

\* lines 68-77
BuildMarkovModels(sq) == [i \in 1..Len(sq) |-> <<sq[i][1], BuildTrans(sq[i][2], 1, <<>>)>>]

-----------------------------------------------------------------------------
(* choose_note *)

DEFAULT_PITCH == 60

Abs(x) == IF x < 0 THEN -x ELSE x

\* line 90, in thousandths: 1000 / (1 + (interval / 7) ^ 1.2), rounded;
\* tabulated for the intervals up to a fifth
LeadMilli(interval) ==
    CASE interval = 0 -> 1000
      [] interval = 1 -> 912
      [] interval = 2 -> 818
      [] interval = 3 -> 734
      [] interval = 4 -> 662
      [] interval = 5 -> 600
      [] interval = 6 -> 546
      [] OTHER -> 500

\* lines 88-92: the weight of one candidate, in thousandths
Weight(note, cnt, prev_note) ==
    LET interval == IF prev_note # NoNote THEN Abs(note - prev_note) ELSE 0
    IN  cnt * LeadMilli(interval)

RECURSIVE SumWeights(_, _, _)
SumWeights(cands, i, prev_note) ==
    IF i > Len(cands) THEN 0
    ELSE Weight(cands[i][1], cands[i][2], prev_note) + SumWeights(cands, i + 1, prev_note)

\* lines 97-102: the cumulative-weight walk; u is random.random() in
\* hundredths, so r = u * total / 100 and r <= s iff u * total <= 100 * s
RECURSIVE WalkWeights(_, _, _, _, _, _)
WalkWeights(cands, i, s, u, total, prev_note) ==
    IF i > Len(cands) THEN cands[Len(cands)][1]
    ELSE LET s1 == s + Weight(cands[i][1], cands[i][2], prev_note)
         IN  IF u * total <= 100 * s1 THEN cands[i][1]
             ELSE WalkWeights(cands, i + 1, s1, u, total, prev_note)

\* line 104: random.choice(fallback_notes), u the uniform draw in hundredths
RandomChoice(pool, u) == pool[((u * Len(pool)) \div 100) + 1]

\* a variant of ChooseNote that never uses the fallback pool
ChooseNoteNoPool(trans_counter, prev_note, fallback_notes, u) ==
    IF trans_counter # <<>>
    THEN LET total == SumWeights(trans_counter, 1, prev_note)
         IN  IF total <= 0 THEN trans_counter[1][1]
             ELSE WalkWeights(trans_counter, 1, 0, u, total, prev_note)
    ELSE DEFAULT_PITCH

\* a variant of ChooseNote that uses the table only when there is a previous note
ChooseNoteNeedsPrev(trans_counter, prev_note, fallback_notes, u) ==
    IF trans_counter # <<>> /\ prev_note # NoNote
    THEN LET total == SumWeights(trans_counter, 1, prev_note)
         IN  IF total <= 0 THEN trans_counter[1][1]
             ELSE WalkWeights(trans_counter, 1, 0, u, total, prev_note)
    ELSE IF fallback_notes # <<>> THEN RandomChoice(fallback_notes, u)
    ELSE DEFAULT_PITCH

\* lines 84-105; u is the one uniform draw the call may consume
ChooseNote(trans_counter, prev_note, fallback_notes, u) ==
    IF trans_counter # <<>>
    THEN LET total == SumWeights(trans_counter, 1, prev_note)
         IN  IF total <= 0 THEN trans_counter[1][1]
             ELSE WalkWeights(trans_counter, 1, 0, u, total, prev_note)
    ELSE IF fallback_notes # <<>> THEN RandomChoice(fallback_notes, u)
    ELSE DEFAULT_PITCH

\* how many uniform draws that call consumes
ChooseNoteDraws(trans_counter, prev_note, fallback_notes) ==
    IF trans_counter # <<>>
    THEN IF SumWeights(trans_counter, 1, prev_note) <= 0 THEN 0 ELSE 1
    ELSE IF fallback_notes # <<>> THEN 1 ELSE 0

-----------------------------------------------------------------------------
(* generate_events *)

MAX_GLOBAL_POLY == cfg.MAX_GLOBAL_POLY
MAX_CHANNELS == cfg.MAX_CHANNELS
GRID == cfg.GRID
BARS == cfg.BARS
ONSET_PROB_PCT == 55     \* ONSET_PROB, in hundredths
VELOCITY == 96

Min(a, b) == IF a < b THEN a ELSE b
Max(a, b) == IF a > b THEN a ELSE b

\* s[:m]
PySliceTo(s, m) ==
    IF m >= 0 THEN SubSeq(s, 1, Min(m, Len(s)))
    ELSE SubSeq(s, 1, Max(0, Len(s) + m))

\* a // b; raises ZeroDivisionError for b = 0 (the caller tests that first)
FloorDiv(a, b) == IF b > 0 THEN a \div b ELSE (-a) \div (-b)

\* a variant of Activity that ranks the least active channel first
ActivityAscending(sq) == [i \in 1..Len(sq) |-> Len(sq[i][2])]

\* line 109: key=lambda kv: -len(kv[1])
Activity(sq) == [i \in 1..Len(sq) |-> -Len(sq[i][2])]

DefaultChannels == <<0, 1, 2, 3>>

\* lines 109-112
SelectChannels(sq, max_channels) ==
    LET channel_activity == StableSortBy(sq, Activity(sq))
        chs == DictKeys(PySliceTo(channel_activity, max_channels))
    IN  IF Len(chs) = 0 THEN DefaultChannels ELSE chs

\* lines 116-117
StepCount(bars, tpb, grid) == FloorDiv(bars * 4 * tpb, grid)

\* a variant of FallbackNotes that pools the notes of all channels
FallbackNotesOfAll(sq, ch) ==
    IF sq = <<>> THEN <<>>
    ELSE LET arr == sq[1][2] \o sq[Len(sq)][2] IN [i \in 1..Len(arr) |-> arr[i][1]]

\* line 122: fallback_notes.get(ch, [])
FallbackNotes(sq, ch) ==
    LET arr == DictGet(sq, ch, <<>>) IN [i \in 1..Len(arr) |-> arr[i][1]]

\* a variant of RoundRobin that is one channel ahead
RoundRobinAhead(chs, st) == chs[((st + 1) % Len(chs)) + 1]

\* line 127
RoundRobin(chs, st) == chs[(st % Len(chs)) + 1]

\* line 126
GlobalActive(au, abs_tick) == Cardinality({i \in 1..Len(au) : au[i][2] > abs_tick})

\* a variant of ChBusy that never finds the channel busy
ChBusyNever(au, ch, abs_tick) == FALSE

\* line 128
ChBusy(au, ch, abs_tick) == DictGet(au, ch, 0) > abs_tick

\* random.choices(population, weights)[0]: bisect of the cumulative weights
\* (in hundredths) by the uniform draw u, over the first n - 1 of them
Choices(population, cum_weights, u) ==
    population[Cardinality({i \in 1..(Len(population) - 1) : cum_weights[i] <= u}) + 1]

\* a variant of DurSteps that returns the index drawn, not the length at it
DurStepsIndex(global_active, max_poly, u) ==
    IF global_active >= max_poly - 1
    THEN Choices(<<0, 1>>, <<90, 100>>, u)
    ELSE Choices(<<0, 1, 2>>, <<60, 90, 100>>, u)

\* a variant of DurSteps that offers the length 4 whatever global_active is
DurStepsAnyLoad(global_active, max_poly, u) ==
    Choices(<<1, 2, 4>>, <<60, 90, 100>>, u)

\* lines 131-134
DurSteps(global_active, max_poly, u) ==
    IF global_active >= max_poly - 1
    THEN Choices(<<1, 2>>, <<90, 100>>, u)
    ELSE Choices(<<1, 2, 4>>, <<60, 90, 100>>, u)

\* lines 142-143: mido.Message(type, note, velocity, channel, time=0)
Message(type, note, velocity, ch) ==
    [type |-> type, note |-> note, velocity |-> velocity, channel |-> ch,
     program |-> 0, tempo |-> 0, time |-> 0]

\* lines 144-145
EmitNote(ev, ch, abs_tick, dur_ticks, note) ==
    DictSet(ev, ch,
            DictGet(ev, ch, <<>>)
            \o <<[tick |-> abs_tick, msg |-> Message("note_on", note, VELOCITY, ch)],
                 [tick |-> abs_tick + dur_ticks, msg |-> Message("note_off", note, 0, ch)]>>)

\* a variant of CanStart that ignores the polyphony ceiling
CanStartNoCeiling(au, ch, abs_tick, max_poly) == ~ChBusy(au, ch, abs_tick)

\* line 130, without the random draw
CanStart(au, ch, abs_tick, max_poly) ==
    ~ChBusy(au, ch, abs_tick) /\ GlobalActive(au, abs_tick) < max_poly

\* a variant of ModelsAfterLookup that reads by indexing, models[ch][prev],
\* which adds a missing key with an empty value
ModelsAfterIndexing(mdl, ch, prev) ==
    LET model == DictGet(mdl, ch, <<>>)
    IN  IF DictHas(model, prev) THEN mdl
        ELSE DictSet(mdl, ch, Append(model, <<prev, <<>>>>))

\* lines 137-139: models.get(ch, {}) and model.get(prev, Counter()) return
\* their default for a missing key without adding the key
ModelsAfterLookup(mdl, ch, prev) == mdl

\* lines 119-121: the state a call of generate_events starts from
NewEvents == <<>>
\* a variant of NewActiveUntil that keeps what an earlier call left
KeptActiveUntil == active_until
NewActiveUntil == <<>>
NewLastNote == <<>>

-----------------------------------------------------------------------------
(* write_midi *)

DEFAULT_PROGRAM == 6

\* line 161: key=lambda x: x[0]
EventTicks(evs) == [i \in 1..Len(evs) |-> evs[i].tick]

\* a variant of SortedWithDeltas whose sort puts events of equal tick in
\* the reverse of the order they were appended in
SortedTiesReversed(evs) ==
    LET keys == EventTicks(evs)
        rank(i) == Cardinality({j \in 1..Len(evs) : keys[j] < keys[i]})
                   + Cardinality({j \in (i + 1)..Len(evs) : keys[j] = keys[i]}) + 1
        sorted == [p \in 1..Len(evs) |-> evs[CHOOSE i \in 1..Len(evs) : rank(i) = p]]
    IN  [i \in 1..Len(sorted) |->
            [sorted[i] EXCEPT !.msg.time =
                Max(0, sorted[i].tick - (IF i = 1 THEN 0 ELSE sorted[i - 1].tick))]]

\* lines 161-167: sort by tick, then set each message's delta time
SortedWithDeltas(evs) ==
    LET sorted == StableSortBy(evs, EventTicks(evs))
    IN  [i \in 1..Len(sorted) |->
            [sorted[i] EXCEPT !.msg.time =
                Max(0, sorted[i].tick - (IF i = 1 THEN 0 ELSE sorted[i - 1].tick))]]

\* lines 154-168: the track of one channel
TrackOf(ev, prg, ch) ==
    LET evs == SortedWithDeltas(DictGet(ev, ch, <<>>))
    IN  <<[type |-> "program_change", note |-> 0, velocity |-> 0, channel |-> ch,
           program |-> DictGet(prg, ch, DEFAULT_PROGRAM), tempo |-> 0, time |-> 0]>>
        \o [i \in 1..Len(evs) |-> evs[i].msg]

\* a variant of WriteTracks that saves no track for a channel without events
WriteTracksNotEmpty(ev, chs, prg, tmp) ==
    LET sorted == StableSortBy(chs, chs)
        keep == {i \in 1..Len(sorted) : DictGet(ev, sorted[i], <<>>) # <<>>}
        order == [p \in 1..Cardinality(keep) |->
                    sorted[CHOOSE i \in keep : Cardinality({j \in keep : j < i}) = p - 1]]
        tracks == [i \in 1..Len(order) |-> TrackOf(ev, prg, order[i])]
    IN  IF Len(tracks) = 0 THEN tracks
        ELSE [tracks EXCEPT ![1] =
                <<[type |-> "set_tempo", note |-> 0, velocity |-> 0, channel |-> 0,
                   program |-> 0, tempo |-> tmp, time |-> 0]>> \o @]

\* lines 152-171: the tracks of the saved file
WriteTracks(ev, chs, prg, tmp) ==
    LET order == StableSortBy(chs, chs)
        tracks == [i \in 1..Len(order) |-> TrackOf(ev, prg, order[i])]
    IN  IF Len(tracks) = 0 THEN tracks
        ELSE [tracks EXCEPT ![1] =
                <<[type |-> "set_tempo", note |-> 0, velocity |-> 0, channel |-> 0,
                   program |-> 0, tempo |-> tmp, time |-> 0]>> \o @]

\* line 161: evs.sort mutates the lists of events_by_ch in place, and line 165
\* the messages in them
EventsAfterWrite(ev, chs) ==
    [i \in 1..Len(ev) |->
        IF ev[i][1] \in Range(chs) THEN <<ev[i][1], SortedWithDeltas(ev[i][2])>> ELSE ev[i]]

-----------------------------------------------------------------------------
(* The random source.  A draw is random.random() in hundredths.  A seeded    *)
(* source yields the same stream on every run: the first run records the     *)
(* draws it consumes on the tape, a later run reads them back.               *)

Draws == {0, 60, 90}
SeededDraws == {0, 90}    \* the draws of the streams a seed may give

NextDraws(n) ==
    IF rng.seeded /\ run > 1
    THEN {[i \in 1..n |-> IF rng.pos + i <= Len(rng.tape) THEN rng.tape[rng.pos + i] ELSE 0]}
    ELSE [1..n -> IF rng.seeded THEN SeededDraws ELSE Draws]

Consume(us, n) ==
    IF ~rng.seeded THEN rng
    ELSE IF run > 1 THEN [rng EXCEPT !.pos = @ + n]
    ELSE [rng EXCEPT !.tape = @ \o SubSeq(us, 1, n), !.pos = @ + n]

-----------------------------------------------------------------------------
(* Inputs *)

Configs ==
    {c \in [MAX_GLOBAL_POLY : 0..MaxPoly, MAX_CHANNELS : ChanValues,
            GRID : (-1)..MaxGrid, BARS : 0..1] :
        Cardinality({f \in {"MAX_GLOBAL_POLY", "GRID", "BARS"} : c[f] <= 0}) <= 1}

NoteLists == UNION {[1..k -> NoteKinds] : k \in 0..MaxNotes}

\* a track playing the notes one after the other, each one tick long
NotesTrack(notes) ==
    [i \in 1..(2 * Len(notes)) |->
        LET nt == notes[(i + 1) \div 2]
        IN  IF i % 2 = 1
            THEN [time |-> 0, msg |-> Msg("note_on", nt[1], nt[2], VELOCITY, 0, 0)]
            ELSE [time |-> 1, msg |-> Msg("note_off", nt[1], nt[2], 0, 0, 0)]]

ProgramTrack == <<[time |-> 0, msg |-> Msg("program_change", 0, 0, 0, 1, 0)]>>

Corpora ==
    {<<>>} \cup
    {<<[ticks_per_beat |-> 1, tracks |-> <<ProgramTrack, NotesTrack(notes)>>]>> :
        notes \in NoteLists}

\* no call of choose_note made
NoCall ==
    [trans_counter |-> <<>>, prev_note |-> NoNote, fallback_notes |-> <<>>, u |-> 0,
     note |-> NoNote, called |-> FALSE]

NoOutput == [events |-> <<>>, channels |-> <<>>, tracks |-> <<>>]

InitWith(start, files, seeded, inputs, calls) ==
    /\ pc = start
    /\ cfg \in Configs
    /\ mid_files \in files
    /\ files_done = 0
    /\ msgs_done = 0
    /\ abs_t = 0
    /\ active = {}
    /\ seqs \in inputs
    /\ programs = <<>>
    /\ ticks_per_beat = DEFAULT_TPB
    /\ tempo = DEFAULT_TEMPO
    /\ models = <<>>
    /\ channels = <<>>
    /\ steps = 0
    /\ step = 0
    /\ events_by_ch = <<>>
    /\ active_until = <<>>
    /\ last_note = <<>>
    /\ out_tracks = <<>>
    /\ rng = [seeded |-> seeded, tape |-> <<>>, pos |-> 0]
    /\ run = 1
    /\ first_out = NoOutput
    /\ scanned = NoScan
    /\ chosen \in calls

Init == InitWith("main", Corpora, FALSE, {<<>>}, {NoCall})

-----------------------------------------------------------------------------
(* main *)

\* lines 178-182
Main ==
    /\ pc = "main"
    /\ IF Len(mid_files) = 0
       THEN /\ pc' = "done"
            /\ UNCHANGED <<seqs, programs, ticks_per_beat, tempo>>
       ELSE LET r == ExtractSequences(mid_files)
            IN  /\ seqs' = r.seqs
                /\ programs' = r.programs
                /\ ticks_per_beat' = r.ticks_per_beat
                /\ tempo' = r.tempo
                /\ pc' = "build"
    /\ UNCHANGED <<cfg, mid_files, files_done, msgs_done, abs_t, active, models,
                   genVars, out_tracks, rng, run, first_out,
                   scanned, chosen>>

\* line 184
BuildModels ==
    /\ pc = "build"
    /\ models' = BuildMarkovModels(seqs)
    /\ pc' = "generate"
    /\ UNCHANGED <<cfg, mid_files, extractVars, genVars, out_tracks, rng, run, first_out,
                   scanned, chosen>>

\* lines 109-122: generate_events up to the loop; line 117 raises
\* ZeroDivisionError when GRID = 0
GenInit ==
    /\ pc = "generate"
    /\ channels' = SelectChannels(seqs, MAX_CHANNELS)
    /\ IF GRID = 0
       THEN /\ pc' = "error"
            /\ UNCHANGED <<steps, step, events_by_ch, active_until, last_note>>
       ELSE /\ steps' = StepCount(BARS, ticks_per_beat, GRID)
            /\ step' = 0
            /\ events_by_ch' = NewEvents
            /\ active_until' = NewActiveUntil
            /\ last_note' = NewLastNote
            /\ pc' = "loop"
    /\ UNCHANGED <<cfg, mid_files, extractVars, models, out_tracks, rng, run, first_out,
                   scanned, chosen>>

\* lines 131-146: the onset, with the draws us[2] (length) and us[3] (pitch)
StartNote(ch, abs_tick, global_active, us) ==
    LET model == DictGet(models, ch, <<>>)
        prev == DictGet(last_note, ch, NoNote)
        trans_counter == DictGet(model, prev, <<>>)
        pool == FallbackNotes(seqs, ch)
        dur_ticks == DurSteps(global_active, MAX_GLOBAL_POLY, us[2]) * GRID
        note == ChooseNote(trans_counter, prev, pool, us[3])
    IN  /\ last_note' = DictSet(last_note, ch, note)
        /\ events_by_ch' = EmitNote(events_by_ch, ch, abs_tick, dur_ticks, note)
        /\ active_until' = DictSet(active_until, ch, abs_tick + dur_ticks)
        /\ models' = ModelsAfterLookup(models, ch, prev)
        /\ rng' = Consume(us, 2 + ChooseNoteDraws(trans_counter, prev, pool))

\* lines 124-146: one iteration of the loop.  random.random() of line 130 is
\* drawn only when the channel is free and the ceiling is not reached.
GenStep ==
    /\ pc = "loop"
    /\ step < steps
    /\ LET abs_tick == step * GRID
           global_active == GlobalActive(active_until, abs_tick)
           ch == RoundRobin(channels, step)
       IN  IF ~CanStart(active_until, ch, abs_tick, MAX_GLOBAL_POLY)
           THEN /\ UNCHANGED <<last_note, events_by_ch, active_until, models, rng>>
           ELSE \E u \in NextDraws(1) :
                  IF u[1] < ONSET_PROB_PCT
                  THEN \E us \in {x \in NextDraws(3) : x[1] = u[1]} :
                         StartNote(ch, abs_tick, global_active, us)
                  ELSE /\ UNCHANGED <<last_note, events_by_ch, active_until, models>>
                       /\ rng' = Consume(u, 1)
    /\ step' = step + 1
    /\ UNCHANGED <<pc, cfg, mid_files, extractVars, channels, steps,
                   out_tracks, run, first_out,
                   scanned, chosen>>

\* line 148
GenReturn ==
    /\ pc = "loop"
    /\ step >= steps
    /\ pc' = "write"
    /\ UNCHANGED <<cfg, mid_files, extractVars, models, genVars, out_tracks, rng,
                   run, first_out,
                   scanned, chosen>>

\* line 186: write_midi
WriteMidi ==
    /\ pc = "write"
    /\ out_tracks' = WriteTracks(events_by_ch, channels, programs, tempo)
    /\ events_by_ch' = EventsAfterWrite(events_by_ch, channels)
    /\ pc' = "done"
    /\ UNCHANGED <<cfg, mid_files, extractVars, models, channels, steps, step,
                   active_until, last_note, rng, run, first_out,
                   scanned, chosen>>

Next == Main \/ BuildModels \/ GenInit \/ GenStep \/ GenReturn \/ WriteMidi

Spec == Init /\ [][Next]_vars

-----------------------------------------------------------------------------
(* extract_sequences, message by message.  The files are not materialised:   *)
(* each file's ticks_per_beat and each event of its sorted event list is an  *)
(* input of the step that reads it.  After the sort of line 46 the absolute  *)
(* times are nondecreasing, so an event is a delta on the previous one.      *)

ExtractState ==
    [active |-> active, seqs |-> seqs, programs |-> programs,
     ticks_per_beat |-> ticks_per_beat, tempo |-> tempo]

\* lines 38-48: the next file
OpenFile ==
    /\ pc = "extract"
    /\ files_done < MaxFiles
    /\ \E file_tpb \in TpbValues : ticks_per_beat' = FileTpb(file_tpb, ticks_per_beat)
    /\ active' = {}
    /\ abs_t' = 0
    /\ files_done' = files_done + 1
    /\ pc' = "scan"
    /\ scanned' = NoScan
    /\ UNCHANGED <<cfg, mid_files, msgs_done, seqs, programs, tempo, models, genVars,
                   out_tracks, rng, run, first_out, chosen>>

\* lines 49-64: the next event of the file
ScanEvent ==
    /\ pc = "scan"
    /\ msgs_done < MaxMsgs
    /\ \E dt \in DeltaValues, msg \in Msgs :
         \E st \in {ScanMsg(ExtractState, abs_t + dt, msg, ticks_per_beat)} :
             /\ abs_t' = abs_t + dt
             /\ active' = st.active
             /\ seqs' = st.seqs
             /\ programs' = st.programs
             /\ tempo' = st.tempo
             /\ scanned' = ScanRecord(scanned, abs_t + dt, msg)
    /\ msgs_done' = msgs_done + 1
    /\ UNCHANGED <<pc, cfg, mid_files, files_done, ticks_per_beat, models, genVars,
                   out_tracks, rng, run, first_out, chosen>>

\* the file's events are exhausted
CloseFile ==
    /\ pc = "scan"
    /\ pc' = "extract"
    /\ UNCHANGED <<cfg, mid_files, extractVars, models, genVars, out_tracks, rng, run,
                   first_out, scanned, chosen>>

\* line 65, and main's line 182; main calls extract_sequences only with files
ExtractReturn ==
    /\ pc = "extract"
    /\ files_done >= 1
    /\ active' = {}
    /\ abs_t' = 0
    /\ pc' = "build"
    /\ scanned' = NoScan
    /\ UNCHANGED <<cfg, mid_files, files_done, msgs_done, seqs, programs,
                   ticks_per_beat, tempo, models, genVars, out_tracks, rng, run,
                   first_out, chosen>>

InitExtract ==
    /\ InitWith("extract", {<<>>}, FALSE, {<<>>}, {NoCall})
    /\ cfg.MAX_GLOBAL_POLY = 1 /\ cfg.MAX_CHANNELS = 1 /\ cfg.GRID = 1 /\ cfg.BARS = 1

NextExtract == OpenFile \/ ScanEvent \/ CloseFile \/ ExtractReturn \/ BuildModels

SpecExtract == InitExtract /\ [][NextExtract]_vars

-----------------------------------------------------------------------------
(* Two runs of generate_events and write_midi on the same extracted inputs,  *)
(* the random source seeded alike for both.                                  *)

\* the second run: main's lines 185-186 again, the source re-seeded
RunAgain ==
    /\ pc = "done"
    /\ Len(mid_files) > 0
    /\ rng.seeded
    /\ run = 1
    /\ first_out' = [events |-> events_by_ch, channels |-> channels, tracks |-> out_tracks]
    /\ run' = 2
    /\ rng' = [rng EXCEPT !.pos = 0]
    /\ pc' = "generate"
    /\ UNCHANGED <<cfg, mid_files, extractVars, models, genVars, out_tracks,
                   scanned, chosen>>

InitRuns ==
    /\ InitWith("main", Corpora, TRUE, {<<>>}, {NoCall})
    /\ cfg.MAX_GLOBAL_POLY >= 1 /\ cfg.GRID >= 2 /\ cfg.BARS >= 1

NextRuns == Next \/ RunAgain

SpecRuns == InitRuns /\ [][NextRuns]_vars

-----------------------------------------------------------------------------
(* build_markov_models alone, on sequences longer than the corpora give *)

PitchUniverse == {60, 62, 64}

NoteSeqs(maxlen) ==
    UNION {[1..k -> {<<p, 1>> : p \in PitchUniverse}] : k \in 1..maxlen}

SeqsInputs ==
    {<<>>}
    \cup {<<<<0, a>>>> : a \in NoteSeqs(MaxSeqLen)}
    \cup {<<<<1, a>>, <<0, b>>>> : a \in NoteSeqs(2), b \in NoteSeqs(2)}

InitBuild ==
    /\ InitWith("build", {<<>>}, FALSE, SeqsInputs, {NoCall})
    /\ cfg.MAX_GLOBAL_POLY = 1 /\ cfg.MAX_CHANNELS = 1 /\ cfg.GRID = 1 /\ cfg.BARS = 1

NextBuild == BuildModels

SpecBuild == InitBuild /\ [][NextBuild]_vars

-----------------------------------------------------------------------------
(* choose_note alone, on every table, previous note, pool and draw of a      *)
(* small universe, tables with counts of zero included                       *)

MaxCands == 2        \* candidates of a Counter given to choose_note alone
MaxCount == 2        \* largest count in such a Counter

ChoosePitches == {60, 62, 67}
ChooseDraws == {0, 50, 99}

Counters ==
    {c \in UNION {[1..k -> ChoosePitches \X (0..MaxCount)] : k \in 0..MaxCands} :
        \A i \in 1..Len(c), j \in 1..Len(c) : i # j => c[i][1] # c[j][1]}

Pools == {<<>>, <<60>>, <<62, 67>>, <<67, 62, 67>>}

Calls ==
    {[trans_counter |-> c, prev_note |-> p, fallback_notes |-> f, u |-> u,
      note |-> NoNote, called |-> FALSE] :
        c \in Counters, p \in {NoNote, 60, 64}, f \in Pools, u \in ChooseDraws}

\* lines 84-105: the call
CallChooseNote ==
    /\ pc = "choose"
    /\ ~chosen.called
    /\ chosen' = [chosen EXCEPT
                    !.note = ChooseNote(chosen.trans_counter, chosen.prev_note,
                                        chosen.fallback_notes, chosen.u),
                    !.called = TRUE]
    /\ pc' = "done"
    /\ UNCHANGED <<cfg, mid_files, extractVars, models, genVars, out_tracks, rng, run,
                   first_out, scanned>>

InitChoose ==
    /\ InitWith("choose", {<<>>}, FALSE, {<<>>}, Calls)
    /\ cfg.MAX_GLOBAL_POLY = 1 /\ cfg.MAX_CHANNELS = 1 /\ cfg.GRID = 1 /\ cfg.BARS = 1

NextChoose == CallChooseNote

SpecChoose == InitChoose /\ [][NextChoose]_vars

-----------------------------------------------------------------------------
(* Properties *)

ValidConfig == MAX_GLOBAL_POLY >= 1 /\ GRID >= 1 /\ MAX_CHANNELS >= 1

InvalidConfig == GRID <= 0 \/ MAX_GLOBAL_POLY <= 0 \/ BARS <= 0

InLoop == pc \in {"loop", "write", "done"} /\ Len(channels) > 0

AllChannels == 0..3

\* the notes of a channel's event list as generate_events appended them:
\* the note_on at 2i - 1, its note_off at 2i
NoteCount(evs) == Len(evs) \div 2
NoteStart(evs, i) == evs[2 * i - 1].tick
NoteEnd(evs, i) == evs[2 * i].tick

IsNoteMsg(m) == m.type \in {"note_on", "note_off"}

\* C1: under a valid configuration, at the tick of every step executed and at
\* every later tick, the number of channels whose active_until is greater
\* than the tick is at most MAX_GLOBAL_POLY.
C1_PolyphonyCeiling ==
    (InLoop /\ ValidConfig /\ step >= 1) =>
        \A t \in ((step - 1) * GRID)..((steps + 4) * GRID) :
            GlobalActive(active_until, t) <= MAX_GLOBAL_POLY

\* C1 witness: the ceiling is reached while a further selected channel is free
C1_Witness ==
    /\ pc = "loop" /\ ValidConfig /\ step >= 1 /\ step < steps
    /\ GlobalActive(active_until, step * GRID) = MAX_GLOBAL_POLY
    /\ ~ChBusy(active_until, RoundRobin(channels, step), step * GRID)

\* C2: the notes of one channel never overlap: a note emitted after another
\* of the same channel starts at or after the end of the earlier one.
C2_NoOverlapPerVoice ==
    pc \in {"loop", "write", "done"} =>
        \A k \in 1..Len(events_by_ch) :
            LET evs == events_by_ch[k][2]
            IN  \A i \in 1..NoteCount(evs), j \in 1..NoteCount(evs) :
                    i < j => NoteStart(evs, j) >= NoteEnd(evs, i)

\* C2 witness: a channel whose second note starts at the tick its first ends,
\* and a channel whose turn came while it was busy
C2_Witness ==
    /\ pc = "loop" /\ step < steps
    /\ \E k \in 1..Len(events_by_ch) :
          LET evs == events_by_ch[k][2]
          IN  NoteCount(evs) >= 2 /\ NoteStart(evs, 2) = NoteEnd(evs, 1)
    /\ ChBusy(active_until, RoundRobin(channels, step), step * GRID)

\* C3: a step of the loop emits at most one note-start, at the step's tick
\* and for the round-robin channel channels[step mod len(channels)] only; it
\* leaves the busy-until tick, the last pitch and the events of every other
\* channel as they were, and without an onset it changes no channel's state.
C3_StepFrame ==
    [][(pc = "loop" /\ step' = step + 1) =>
        LET ch == channels[(step % Len(channels)) + 1]
            old == DictGet(events_by_ch, ch, <<>>)
            new == DictGet(events_by_ch', ch, <<>>)
        IN  /\ \A c \in AllChannels \ {ch} :
                  /\ DictGet(active_until', c, NoNote) = DictGet(active_until, c, NoNote)
                  /\ DictGet(last_note', c, NoNote) = DictGet(last_note, c, NoNote)
                  /\ DictGet(events_by_ch', c, <<>>) = DictGet(events_by_ch, c, <<>>)
            /\ \/ /\ events_by_ch' = events_by_ch
                  /\ active_until' = active_until
                  /\ last_note' = last_note
               \/ /\ Len(new) = Len(old) + 2
                  /\ SubSeq(new, 1, Len(old)) = old
                  /\ new[Len(old) + 1].msg.type = "note_on"
                  /\ new[Len(old) + 1].tick = step * GRID
                  /\ new[Len(old) + 2].msg.type = "note_off"
                  /\ new[Len(old) + 1].msg.channel = ch
                  /\ new[Len(old) + 2].msg.channel = ch]_vars

\* C3 witness: both kinds of step have happened: two channels hold notes, and
\* more steps have run than notes were started
C3_Witness ==
    /\ pc = "loop"
    /\ Len(events_by_ch) >= 2
    /\ \A k \in 1..Len(events_by_ch) : NoteCount(events_by_ch[k][2]) = 1
    /\ step > Len(events_by_ch)

\* C4: under a valid configuration every emitted note ends after it starts:
\* its end is its start plus 1, 2 or 4 times GRID.
C4_PositiveDuration ==
    ValidConfig =>
        \A k \in 1..Len(events_by_ch) :
            LET evs == events_by_ch[k][2]
            IN  \A i \in 1..NoteCount(evs) :
                    /\ NoteEnd(evs, i) > NoteStart(evs, i)
                    /\ NoteEnd(evs, i) - NoteStart(evs, i) \in {GRID, 2 * GRID, 4 * GRID}
                    /\ evs[2 * i - 1].msg.type = "note_on"
                    /\ evs[2 * i].msg.type = "note_off"

\* C4 witness: notes of 1, 2 and 4 grid steps have been emitted, with GRID > 1
C4_Witness ==
    /\ ValidConfig /\ GRID > 1
    /\ \E k \in 1..Len(events_by_ch) :
          NoteEnd(events_by_ch[k][2], 1) - NoteStart(events_by_ch[k][2], 1) = 4 * GRID
    /\ \E k \in 1..Len(events_by_ch) :
          NoteEnd(events_by_ch[k][2], 1) - NoteStart(events_by_ch[k][2], 1) = GRID

\* C5: when extraction yields no NoteEvents for any channel, the run ends
\* without error and without a single note event, in the generated events
\* and in the written tracks.
C5_EmptyCorpusNoNotes ==
    (seqs = <<>> /\ ValidConfig /\ pc \in {"loop", "write", "done"}) =>
        /\ events_by_ch = <<>>
        /\ \A i \in 1..Len(out_tracks) :
              \A j \in 1..Len(out_tracks[i]) : ~IsNoteMsg(out_tracks[i][j])

\* C6: a configuration with GRID <= 0, MAX_GLOBAL_POLY <= 0 or BARS <= 0 is
\* rejected with an error before generation: no step of the loop runs, the
\* loop is not left normally, nothing is emitted and nothing is written.
C6_InvalidConfigRejected ==
    (InvalidConfig /\ Len(mid_files) > 0) =>
        /\ pc \notin {"write", "done"}
        /\ step = 0
        /\ events_by_ch = <<>>
        /\ out_tracks = <<>>

\* C7: every (pitch, duration) pair extract_sequences records has a duration
\* greater than zero.
C7_DurationsPositive ==
    \A k \in 1..Len(seqs) :
        \A i \in 1..Len(seqs[k][2]) : seqs[k][2][i][2] > 0

Pairs(arr, a, b) == {i \in 1..(Len(arr) - 1) : arr[i][1] = a /\ arr[i + 1][1] = b}

RECURSIVE SumCounts(_, _)
SumCounts(counter, i) ==
    IF i > Len(counter) THEN 0 ELSE counter[i][2] + SumCounts(counter, i + 1)

RECURSIVE TableTotal(_, _)
TableTotal(table, i) ==
    IF i > Len(table) THEN 0 ELSE SumCounts(table[i][2], 1) + TableTotal(table, i + 1)

Distinct(s) == \A i \in 1..Len(s), j \in 1..Len(s) : i # j => s[i] # s[j]

\* C9: build_markov_models gives every channel of seqs a table in which
\* table[a][b] is the number of positions where pitch a is directly followed
\* by pitch b, with no entry for a pair that never occurs (so the counts add
\* up to len(seq) - 1); a channel with fewer than two notes gets an empty table.
C9_TransitionCounts ==
    pc = "generate" =>
        /\ DictKeys(models) = DictKeys(seqs)
        /\ \A k \in 1..Len(seqs) :
              LET arr == seqs[k][2]
                  table == models[k][2]
              IN  /\ Distinct(DictKeys(table))
                  /\ \A i \in 1..Len(table) :
                        /\ Len(table[i][2]) > 0
                        /\ Distinct(DictKeys(table[i][2]))
                        /\ \A j \in 1..Len(table[i][2]) : table[i][2][j][2] >= 1
                  /\ \A a \in PitchUniverse, b \in PitchUniverse :
                        DictGet(DictGet(table, a, <<>>), b, 0) = Cardinality(Pairs(arr, a, b))
                  /\ TableTotal(table, 1) = Max(0, Len(arr) - 1)
                  /\ (Len(arr) < 2 => table = <<>>)

\* C9 witness: the sequence 60, 62, 60, 64 and its table
\* {60: {62: 1, 64: 1}, 62: {60: 1}}
C9_Witness ==
    /\ pc = "generate"
    /\ seqs = <<<<0, <<<<60, 1>>, <<62, 1>>, <<60, 1>>, <<64, 1>>>>>>>>
    /\ models = <<<<0, <<<<60, <<<<62, 1>>, <<64, 1>>>>>>, <<62, <<<<60, 1>>>>>>>>>>>>

\* C9 witness of a count above one is part of the same run: 60, 62, 60, 62
C9_RepeatWitness ==
    /\ pc = "generate"
    /\ \E k \in 1..Len(models) : DictGet(DictGet(models[k][2], 60, <<>>), 62, 0) = 2

C10_DefaultWitness == pc = "loop" /\ Len(seqs) = 0 /\ channels = <<0, 1, 2, 3>>

\* position of channel c in the iteration order of seqs
SeqsIndex(c) == DictIdx(seqs, c)

\* C11: channels with equal NoteEvent counts keep, on every run over the same
\* extracted input, the relative order in which seqs iterates them: a tied
\* channel that is selected precedes in seqs every channel of the same count
\* that is selected after it or left out by the MAX_CHANNELS cut, and the
\* second run's selection is the first run's, channel by channel, so every
\* channel keeps its round-robin position.
C11_TieOrderStable ==
    (pc \in {"loop", "write", "done"} /\ Len(seqs) > 0) =>
        /\ \A i \in 1..Len(channels), j \in 1..Len(channels) :
              (i < j /\ Len(DictGet(seqs, channels[i], <<>>))
                          = Len(DictGet(seqs, channels[j], <<>>)))
                  => SeqsIndex(channels[i]) < SeqsIndex(channels[j])
        /\ \A c \in Range(channels), d \in DictKeySet(seqs) \ Range(channels) :
              Len(DictGet(seqs, c, <<>>)) = Len(DictGet(seqs, d, <<>>))
                  => SeqsIndex(c) < SeqsIndex(d)
        /\ run = 2 =>
              /\ channels = first_out.channels
              /\ \A st \in 0..steps :
                    RoundRobin(channels, st) = RoundRobin(first_out.channels, st)

\* C11 witness: the second run, two channels of equal count, the one with
\* the greater id extracted first, and MAX_CHANNELS = 1 cutting between them
C11_Witness ==
    /\ run = 2 /\ pc = "loop" /\ MAX_CHANNELS = 1
    /\ Len(seqs) = 2
    /\ Len(seqs[1][2]) = Len(seqs[2][2])
    /\ seqs[1][1] > seqs[2][1]
    /\ channels = <<seqs[1][1]>>

\* C11 witness of a tie inside the selection
C11_InsideWitness ==
    /\ run = 2 /\ pc = "loop" /\ MAX_CHANNELS = 2
    /\ Len(seqs) = 2
    /\ Len(seqs[1][2]) = Len(seqs[2][2])
    /\ channels = <<seqs[1][1], seqs[2][1]>>

\* C12: choose_note returns a pitch for every Counter (empty, or with a
\* total weight of zero), every previous note (None included) and every
\* fallback pool (empty included): a key of the Counter when the Counter is
\* not empty, else a member of the pool when the pool is not empty, else 60.
C12_ChooseNoteTotal ==
    (pc = "done" /\ chosen.called) =>
        IF chosen.trans_counter # <<>>
        THEN chosen.note \in DictKeySet(chosen.trans_counter)
        ELSE IF chosen.fallback_notes # <<>>
        THEN chosen.note \in Range(chosen.fallback_notes)
        ELSE chosen.note = DEFAULT_PITCH

\* C12 witness: a Counter whose counts are all zero, no previous note and a
\* pool that does not hold the Counter's keys: the first key is returned
C12_Witness ==
    /\ chosen.called
    /\ Len(chosen.trans_counter) = 2
    /\ \A i \in 1..Len(chosen.trans_counter) : chosen.trans_counter[i][2] = 0
    /\ chosen.prev_note = NoNote
    /\ chosen.fallback_notes # <<>>
    /\ chosen.note = chosen.trans_counter[1][1]
    /\ chosen.note \notin Range(chosen.fallback_notes)

\* C12 witness of the pool, and of the default pitch
C12_PoolWitness ==
    /\ chosen.called /\ chosen.trans_counter = <<>>
    /\ chosen.fallback_notes = <<62, 67>> /\ chosen.note = 67

C12_DefaultWitness ==
    /\ chosen.called /\ chosen.trans_counter = <<>> /\ chosen.fallback_notes = <<>>
    /\ chosen.note = DEFAULT_PITCH

ChannelMsgs(track) ==
    IF Len(track) > 0 /\ track[1].type = "set_tempo" THEN Tail(track) ELSE track

\* C14: whatever the draws, the saved file has one track per selected
\* channel, in ascending channel order: the track begins with the channel's
\* program_change, holds only that channel's messages, and for a channel
\* without an emitted note holds the program_change alone.
C14_TrackPerVoice ==
    (pc = "done" /\ Len(mid_files) > 0) =>
        /\ Len(out_tracks) = Len(channels)
        /\ \A i \in 1..Len(out_tracks) :
              LET ch == StableSortBy(channels, channels)[i]
                  msgs == ChannelMsgs(out_tracks[i])
              IN  /\ Len(msgs) = 1 + Len(DictGet(events_by_ch, ch, <<>>))
                  /\ msgs[1].type = "program_change"
                  /\ \A j \in 1..Len(msgs) : msgs[j].channel = ch
                  /\ \A j \in 2..Len(msgs) : IsNoteMsg(msgs[j])
        /\ \A i \in 1..Len(out_tracks), j \in 1..Len(out_tracks) :
              i < j => out_tracks[i][Len(out_tracks[i])].channel
                           < out_tracks[j][Len(out_tracks[j])].channel

\* C14 witness: two channels selected from the corpus, notes emitted for one
\* of them only, and the other's track holding its program_change alone
C14_Witness ==
    /\ pc = "done" /\ Len(seqs) = 2 /\ Len(channels) = 2
    /\ Len(events_by_ch) = 1
    /\ Len(out_tracks) = 2
    /\ \E i \in 1..2 : Len(ChannelMsgs(out_tracks[i])) = 1
    /\ \E i \in 1..2 : Len(ChannelMsgs(out_tracks[i])) >= 3

\* a step of the scan loop
ScanStep == pc = "scan" /\ msgs_done' = msgs_done + 1

\* C15: a note_off, or a note_on of velocity 0, for a (channel, note) with no
\* note start since the file began or since its last end leaves seqs and the
\* open-note map as they were; and a channel's list in seqs grows, by exactly
\* one pair, in exactly the steps that scan a note end of that channel whose
\* (channel, note) has such a start, so the length of the list is the number
\* of those note ends.
C15_DanglingEndIgnored ==
    [][ScanStep =>
        LET m == scanned'.msg
            matched == IsNoteEnd(m) /\ scanned'.open_before # NotOpen
        IN  /\ (IsNoteEnd(m) /\ ~matched) => (seqs' = seqs /\ active' = active)
            /\ \A c \in AllChannels :
                  Len(DictGet(seqs', c, <<>>)) =
                      Len(DictGet(seqs, c, <<>>)) + (IF matched /\ m.channel = c THEN 1 ELSE 0)]_vars

\* C15 witness: a note end without a start has just been scanned while
\* another note is open and a pair has been recorded
C15_Witness ==
    /\ pc = "scan"
    /\ IsNoteEnd(scanned.msg) /\ scanned.open_before = NotOpen
    /\ active # {}
    /\ seqs # <<>>

\* C16: a note_on of positive velocity leaves seqs as it was and makes its
\* own time the one recorded start of its (channel, note), also when that
\* note was already open; the next note end of the (channel, note) appends
\* exactly one pair, to its channel's list, whose duration is measured from
\* the latest of the starts, and closes the note, so that a further note end
\* without a start in between appends nothing.
C16_RestartOverwrites ==
    [][ScanStep =>
        LET m == scanned'.msg
            ch == m.channel
            n == m.note
        IN  /\ IsNoteStart(m) =>
                  /\ seqs' = seqs
                  /\ {a \in active' : a[1] = ch /\ a[2] = n} = {<<ch, n, abs_t'>>}
            /\ (IsNoteEnd(m) /\ scanned'.open_before # NotOpen) =>
                  /\ DictGet(seqs', ch, <<>>) =
                        Append(DictGet(seqs, ch, <<>>),
                               <<n, RecordedDur(abs_t' - scanned'.open_before, ticks_per_beat)>>)
                  /\ \A c \in AllChannels \ {ch} :
                        DictGet(seqs', c, <<>>) = DictGet(seqs, c, <<>>)
                  /\ ~IsOpen(active', ch, n)
            /\ (IsNoteEnd(m) /\ scanned'.open_before = NotOpen) =>
                  (seqs' = seqs /\ ~IsOpen(active', ch, n))]_vars

\* C16 witness: a note started at t1 and again at t2 > t1 has ended at
\* t3 > t2, and the pair recorded last has the duration t3 - t2
C16_Witness ==
    /\ pc = "scan"
    /\ IsNoteEnd(scanned.msg)
    /\ scanned.first_before # NotOpen
    /\ scanned.first_before < scanned.open_before
    /\ scanned.open_before < abs_t
    /\ LET arr == DictGet(seqs, scanned.msg.channel, <<>>)
       IN  /\ Len(arr) = 1
           /\ arr[1] = <<scanned.msg.note, abs_t - scanned.open_before>>

\* C16 witness of a further note end: a note end scanned for the (channel,
\* note) of the one recorded pair while that note is not open
C16_SecondEndWitness ==
    /\ pc = "scan" /\ msgs_done = 4
    /\ IsNoteEnd(scanned.msg) /\ scanned.open_before = NotOpen
    /\ active = {}
    /\ seqs = <<<<scanned.msg.channel, <<<<scanned.msg.note, 1>>>>>>>>
    /\ abs_t = 2

\* the number of channels with a note sounding after tick t, from the events
Sounding(ev, t) ==
    Cardinality({k \in 1..Len(ev) :
                    \E i \in 1..NoteCount(ev[k][2]) : NoteEnd(ev[k][2], i) > t})

\* C17: a note started at a step at whose tick MAX_GLOBAL_POLY - 1 or more
\* channels are sounding lasts 1 or 2 grid steps; a note of 4 grid steps is
\* started only when fewer than MAX_GLOBAL_POLY - 1 channels are sounding.
C17_LongNoteNeedsRoom ==
    [][(pc = "loop" /\ step' = step + 1 /\ events_by_ch' # events_by_ch) =>
        LET new == DictGet(events_by_ch', RoundRobin(channels, step), <<>>)
            k == NoteCount(new)
            dur == NoteEnd(new, k) - NoteStart(new, k)
            load == Sounding(events_by_ch, step * GRID)
        IN  /\ load >= MAX_GLOBAL_POLY - 1 => dur \in {GRID, 2 * GRID}
            /\ dur = 4 * GRID => load < MAX_GLOBAL_POLY - 1
            /\ dur \in {GRID, 2 * GRID, 4 * GRID}]_vars

\* C17 witness: with MAX_GLOBAL_POLY = 2, a note of 4 grid steps started
\* while nothing was sounding, and during it a note of 2 grid steps on
\* another channel
C17_Witness ==
    /\ pc = "loop" /\ MAX_GLOBAL_POLY = 2 /\ GRID >= 1
    /\ \E a \in 1..Len(events_by_ch), b \in 1..Len(events_by_ch) :
          LET ea == events_by_ch[a][2]
              eb == events_by_ch[b][2]
          IN  /\ a # b
              /\ NoteStart(ea, 1) = 0
              /\ NoteEnd(ea, 1) = 4 * GRID
              /\ NoteStart(eb, 1) > 0
              /\ NoteStart(eb, 1) < 4 * GRID
              /\ NoteEnd(eb, 1) - NoteStart(eb, 1) = 2 * GRID

\* C18: generate_events leaves the transition tables and the extracted
\* sequences as build_markov_models and extract_sequences returned them:
\* every step of the call, the start of a note whose previous note has no
\* entry in the channel's table or whose channel has no table included, keeps
\* models and seqs, and so adds no key to either.
C18_TablesUntouched ==
    [][(pc = "generate" \/ pc = "loop") =>
        /\ models' = models
        /\ seqs' = seqs]_vars

\* C18 witness: a channel of the corpus has started a second note after a
\* first one whose pitch has no entry in the channel's table
C18_Witness ==
    /\ pc = "loop"
    /\ \E k \in 1..Len(events_by_ch) :
          LET ch == events_by_ch[k][1]
              evs == events_by_ch[k][2]
          IN  /\ NoteCount(evs) >= 2
              /\ DictHas(seqs, ch)
              /\ DictGet(models, ch, <<>>) # <<>>
              /\ ~DictHas(DictGet(models, ch, <<>>), evs[1].msg.note)

\* C18 witness of a channel without a table: a default channel has a note
C18_DefaultWitness ==
    /\ pc = "loop" /\ seqs = <<>> /\ models = <<>> /\ events_by_ch # <<>>

\* the pitches extract_sequences recorded for channel ch
ExtractedPitches(ch) ==
    LET arr == DictGet(seqs, ch, <<>>) IN {arr[i][1] : i \in 1..Len(arr)}

\* C19: every note message emitted for a channel with extracted NoteEvents
\* carries a pitch that occurs in that channel's extracted sequence; a
\* selected channel without extracted NoteEvents emits the pitch 60 only;
\* and last_note holds, for exactly the channels that have emitted a note,
\* the pitch of the channel's latest note_on.
C19_PitchesFromCorpus ==
    (pc \in {"loop", "write", "done"}) =>
        /\ \A k \in 1..Len(events_by_ch) :
              LET ch == events_by_ch[k][1]
                  evs == events_by_ch[k][2]
              IN  /\ ch \in Range(channels)
                  /\ \A i \in 1..Len(evs) :
                        IF ExtractedPitches(ch) # {}
                        THEN evs[i].msg.note \in ExtractedPitches(ch)
                        ELSE evs[i].msg.note = DEFAULT_PITCH
                  /\ DictHas(last_note, ch)
                  /\ \E i \in 1..Len(evs) :
                        /\ evs[i].msg.type = "note_on"
                        /\ \A j \in 1..Len(evs) :
                              evs[j].msg.type = "note_on" => evs[j].tick <= evs[i].tick
                        /\ DictGet(last_note, ch, NoNote) = evs[i].msg.note
        /\ DictKeySet(last_note) = DictKeySet(events_by_ch)

\* C19 witness: a channel of the corpus has emitted two notes of different
\* pitches, the second chosen from the table, while the corpus holds a
\* pitch of another channel that it has not emitted
C19_Witness ==
    /\ pc = "loop" /\ Len(seqs) = 2
    /\ \E k \in 1..Len(events_by_ch) :
          LET ch == events_by_ch[k][1]
              evs == events_by_ch[k][2]
          IN  /\ NoteCount(evs) = 2
              /\ evs[1].msg.note # evs[3].msg.note
              /\ DictHas(DictGet(models, ch, <<>>), evs[1].msg.note)
              /\ DictGet(last_note, ch, NoNote) = evs[3].msg.note

\* C19 witness of channels without extracted NoteEvents: two default
\* channels have emitted a note of pitch 60
C19_DefaultWitness ==
    /\ pc = "loop" /\ seqs = <<>> /\ Len(events_by_ch) >= 2
    /\ \A k \in 1..Len(events_by_ch) :
          /\ NoteCount(events_by_ch[k][2]) = 1
          /\ DictGet(last_note, events_by_ch[k][1], NoNote) = DEFAULT_PITCH

RECURSIVE SumTimes(_, _)
SumTimes(msgs, i) == IF i = 0 THEN 0 ELSE msgs[i].time + SumTimes(msgs, i - 1)

\* C20: in every saved track the messages after the program_change are the
\* channel's events in the order write_midi sorted them: they alternate
\* note_on, note_off, beginning with a note_on and ending with a note_off;
\* every note_off carries the note of the note_on just before it; where a
\* note_off and a note_on have the same tick the note_off comes first; every
\* delta time is at least 0, and the delta times up to a message add up to
\* its absolute tick.
C20_TrackAlternates ==
    (pc = "done" /\ Len(mid_files) > 0) =>
        \A i \in 1..Len(out_tracks) :
            LET ch == StableSortBy(channels, channels)[i]
                evs == DictGet(events_by_ch, ch, <<>>)
                msgs == Tail(ChannelMsgs(out_tracks[i]))
            IN  /\ Len(msgs) = Len(evs)
                /\ Len(msgs) % 2 = 0
                /\ \A j \in 1..Len(msgs) :
                      /\ msgs[j] = evs[j].msg
                      /\ msgs[j].type = IF j % 2 = 1 THEN "note_on" ELSE "note_off"
                      /\ j % 2 = 0 => msgs[j].note = msgs[j - 1].note
                      /\ msgs[j].time >= 0
                      /\ SumTimes(msgs, j) = evs[j].tick
                /\ \A a \in 1..Len(evs), b \in 1..Len(evs) :
                      (evs[a].tick = evs[b].tick /\ evs[a].msg.type = "note_off"
                          /\ evs[b].msg.type = "note_on") => a < b

\* C20 witness: a saved track of two notes of different pitches, the second
\* starting at the tick the first ends, with GRID = 2
C20_Witness ==
    /\ pc = "done" /\ GRID = 2
    /\ \E i \in 1..Len(out_tracks) :
          LET msgs == Tail(ChannelMsgs(out_tracks[i]))
          IN  /\ Len(msgs) = 4
              /\ msgs[3].time = 0
              /\ msgs[2].time > 0
              /\ msgs[1].note # msgs[3].note

====
